---------------------------- MODULE Spec2Model ----------------------------
(***************************************************************************)
(* CarbonIQ: the emissions estimator (EmissionsCalculator), modelled as a  *)
(* state machine over its two cumulative fields.                           *)
(*                                                                         *)
(* JavaScript numbers are modelled as exact rationals n/d in lowest terms  *)
(* (records, so that equal values are equal records), with the further     *)
(* values undefined (an optional field left out), null and NaN.            *)
(***************************************************************************)
EXTENDS Integers, Sequences, FiniteSets, TLC

(***************************************************************************)
(* Numbers                                                                 *)
(***************************************************************************)
RECURSIVE GCD(_, _)
GCD(a, b) == IF b = 0 THEN a ELSE GCD(b, a % b)

Abs(x) == IF x < 0 THEN -x ELSE x

\* the rational n/d (d # 0) in lowest terms with a positive denominator
Rat(n, d) ==
    LET g == GCD(Abs(n), Abs(d))
        s == IF d < 0 THEN -1 ELSE 1
    IN  [k |-> "num", n |-> (s * n) \div g, d |-> (s * d) \div g]

Num(n) == [k |-> "num", n |-> n, d |-> 1]

Zero == Num(0)

Undefined == [k |-> "undefined", n |-> 0, d |-> 1]

Null == [k |-> "null", n |-> 0, d |-> 1]

NaN == [k |-> "NaN", n |-> 0, d |-> 1]

IsNum(a) == a.k = "num"

\* arithmetic of two numbers; NaN (and a missing operand) gives NaN
Add(a, b) ==
    IF IsNum(a) /\ IsNum(b) THEN Rat(a.n * b.d + b.n * a.d, a.d * b.d) ELSE NaN

Mul(a, b) ==
    IF IsNum(a) /\ IsNum(b) THEN Rat(a.n * b.n, a.d * b.d) ELSE NaN

\* every divisor in the estimator is a positive constant or guarded by > 0
Div(a, b) ==
    IF IsNum(a) /\ IsNum(b) /\ b.n # 0 THEN Rat(a.n * b.d, a.d * b.n) ELSE NaN

\* comparisons; any comparison with NaN or undefined is false
Lt(a, b) == IsNum(a) /\ IsNum(b) /\ a.n * b.d < b.n * a.d

Le(a, b) == IsNum(a) /\ IsNum(b) /\ a.n * b.d <= b.n * a.d

Gt(a, b) == Lt(b, a)

Ge(a, b) == Le(b, a)

\* Math.max(a, b)
MathMax(a, b) ==
    IF ~(IsNum(a) /\ IsNum(b)) THEN NaN ELSE IF Lt(a, b) THEN b ELSE a

\* x || y on numbers: undefined, 0 and NaN are falsy
OrElse(x, y) == IF IsNum(x) /\ x.n # 0 THEN x ELSE y

(***************************************************************************)
(* Constants for gasoline                                                  *)
(***************************************************************************)
AFR_STOICH == Rat(147, 10)

FUEL_DENSITY_G_PER_L == 745

EF_CO2_G_PER_L == 2340

LAMBDA_FLOOR == Rat(4, 5)

(***************************************************************************)
(* Bounds and the inputs drawn                                             *)
(***************************************************************************)
\* accepted ticks between two resets
MaxTicks == 2

DtValues == {Num(-1), Zero, Num(1), Num(2)}

SpeedValues == {Num(-1), Zero, Num(10)}

MafValues == {Undefined, Zero, Rat(147, 10)}

FuelRateValues == {Undefined, Zero, Rat(18, 5)}

LambdaValues == {Undefined, Zero, Num(-1), Rat(1, 2), Num(1), Rat(6, 5)}

\* every case of the guardrail, with each fuel signal present or absent
GuardTicks ==
    [dt_s : DtValues, speed_mps : SpeedValues,
     maf_gps : {Undefined, Rat(147, 10)}, fuel_rate_Lh : {Undefined, Rat(18, 5)},
     lambda_equiv : {Undefined}]

\* every combination of the fuel signals and lambda on a tick that passes
\* the guardrail
SignalTicks ==
    [dt_s : {Num(1)}, speed_mps : {Num(10)}, maf_gps : MafValues,
     fuel_rate_Lh : FuelRateValues, lambda_equiv : LambdaValues]

\* EmissionsInputs
Ticks == GuardTicks \cup SignalTicks

NoInputs ==
    [dt_s |-> Undefined, speed_mps |-> Undefined, maf_gps |-> Undefined,
     fuel_rate_Lh |-> Undefined, lambda_equiv |-> Undefined]

Void == [void |-> TRUE]

(***************************************************************************)
(* State                                                                   *)
(***************************************************************************)
VARIABLES
    total_co2_g,    \* EmissionsCalculator.total_co2_g
    distance_km,    \* EmissionsCalculator.distance_km
    accepted,       \* ticks that changed the totals since construction / reset
    lastOp,         \* the last call: "new", "reset", "ingestTick", "getSummary"
    lastIn,         \* its argument (ingestTick), else NoInputs
    pre_co2,        \* total_co2_g when the last call started
    pre_km,         \* distance_km when the last call started
    ret,            \* what the last call returned
    pid,            \* OBDService.parseOBDResponse: the PID queried
    response,       \* OBDService.parseOBDResponse: the raw response (characters)
    decoded,        \* the value parseOBDResponse returned
    dpc,            \* the decoder: "idle", "query" (called), "done" (returned)
    platform,       \* Platform.OS: "android" or "ios"
    wifiOBDServiceRef,  \* StartScreen: the WiFiOBDService has been constructed
    isConnected,    \* WiFiOBDService.isConnected
    readingInterval,    \* WiFiOBDService.readingInterval is set (timer running)
    socket,         \* WiFiOBDService.socket: "null", "idle", "connecting",
                    \* "open", "destroyed" (close event due), "closed"
    connectPc,      \* connect() on Android: "idle", "init" (awaiting the socket
                    \* module), "wait" (awaiting the 100 ms timeout)
    fallbackTimers, \* pending 1000 ms setTimeout callbacks of connect()
    received,       \* responses handleIncomingData has been given
    isTracking,     \* StartScreen state
    obdEnabled,     \* StartScreen state
    obdConnected,   \* StartScreen state
    obdConnecting,  \* StartScreen state
    wifiConfigVisible,  \* StartScreen state
    speed,          \* StartScreen state (km/h)
    maf,            \* StartScreen state (g/s)
    emissions,      \* StartScreen state (kg, displayed)
    distanceShown,  \* StartScreen state distance (km, displayed)
    routeStarted,   \* StartScreen state: route holds at least one point
    telemetryRef,   \* the simulation interval of startTrip is running
    pendingStart,   \* startTrip awaiting watchPositionAsync: the obdConnected
                    \* its closure holds ({} when none is pending)
    watchRef,       \* the live subscription in watchRef.current: the
                    \* obdConnected its callback holds ({} when none)
    sampled,        \* the last handler was the data callback (a sample delivered)
    ingested,       \* ingestTick calls made by the last handler
    telemetryBy,    \* who wrote speed / maf last: "reset" (initial value,
                    \* startTrip), "sim" (simulation timer), "obd" (data callback)
    attempt,        \* the connection attempt: "none", "pending", "connected", "error"
    sinceDisconnect,    \* disconnect() has returned and connect() was not called since
    tripTicks,      \* the ticks ingested since the last startTrip
    tickCount,      \* ingestTick calls made by the screen (bounded)
    gpsCount,       \* position updates delivered (bounded)
    connectedDevice,    \* OBDService.connectedDevice is not null
    blePc,          \* OBDService: "idle", "connecting" (connectToDeviceInternal
                    \* awaiting the device), "starting" (startReadingData
                    \* awaiting the services)
    bleReaders,     \* OBDService: setInterval(readData, 1000) timers alive
    bleFired,       \* of these, the ones that fired in the current second
    bleCalls,       \* data callbacks made in the current second
    bleConnects,    \* connectToDevice calls (bounded)
    bleData         \* the OBDData last given to the data callback

\* the estimator and its last call
evars == <<total_co2_g, distance_km, accepted, lastOp, lastIn, pre_co2, pre_km, ret>>

\* the decoder's call
dvars == <<pid, response, decoded, dpc>>

\* the WiFi OBD service
wvars ==
    <<platform, wifiOBDServiceRef, isConnected, readingInterval, socket,
      connectPc, fallbackTimers, received>>

\* the start screen
svars ==
    <<isTracking, obdEnabled, obdConnected, obdConnecting,
      wifiConfigVisible, speed, maf, emissions, distanceShown, routeStarted,
      telemetryRef, pendingStart, watchRef>>

\* what the handlers of the service and the screen did
hvars ==
    <<sampled, ingested, telemetryBy, attempt, sinceDisconnect, tripTicks,
      tickCount, gpsCount>>

avars == <<wvars, svars, hvars>>

\* the Bluetooth OBD service
bvars == <<connectedDevice, blePc, bleReaders, bleFired, bleCalls, bleConnects, bleData>>

vars == <<evars, dvars, avars, bvars>>

(***************************************************************************)
(* EmissionsCalculator                                                     *)
(***************************************************************************)
\* Math.max(0.8, inputs.lambda_equiv || 1.0)
LambdaEff(inputs) == MathMax(LAMBDA_FLOOR, OrElse(inputs.lambda_equiv, Num(1)))

\* mutant: a zero maf_gps taken as a valid signal (>= for >)
calculateFuelFlow_ZeroMafAccepted(inputs) ==
    IF inputs.maf_gps # Undefined /\ Ge(inputs.maf_gps, Zero)
    THEN [fuel_vol_flow_Lps |->
              Div(Div(inputs.maf_gps, Mul(AFR_STOICH, LambdaEff(inputs))),
                  Num(FUEL_DENSITY_G_PER_L)),
          used_maf |-> TRUE, used_fuel_rate |-> FALSE, stale |-> FALSE]
    ELSE IF inputs.fuel_rate_Lh # Undefined /\ Gt(inputs.fuel_rate_Lh, Zero)
    THEN [fuel_vol_flow_Lps |-> Div(inputs.fuel_rate_Lh, Num(3600)),
          used_maf |-> FALSE, used_fuel_rate |-> TRUE, stale |-> FALSE]
    ELSE [fuel_vol_flow_Lps |-> Zero, used_maf |-> FALSE,
          used_fuel_rate |-> FALSE, stale |-> TRUE]

\* mutant: the two paths in the wrong order (fuel rate before MAF)
calculateFuelFlow_FuelRateFirst(inputs) ==
    IF inputs.fuel_rate_Lh # Undefined /\ Gt(inputs.fuel_rate_Lh, Zero)
    THEN [fuel_vol_flow_Lps |-> Div(inputs.fuel_rate_Lh, Num(3600)),
          used_maf |-> FALSE, used_fuel_rate |-> TRUE, stale |-> FALSE]
    ELSE IF inputs.maf_gps # Undefined /\ Gt(inputs.maf_gps, Zero)
    THEN [fuel_vol_flow_Lps |->
              Div(Div(inputs.maf_gps, Mul(AFR_STOICH, LambdaEff(inputs))),
                  Num(FUEL_DENSITY_G_PER_L)),
          used_maf |-> TRUE, used_fuel_rate |-> FALSE, stale |-> FALSE]
    ELSE [fuel_vol_flow_Lps |-> Zero, used_maf |-> FALSE,
          used_fuel_rate |-> FALSE, stale |-> TRUE]

\* mutant: the lambda correction applied on the fuel-rate path too
calculateFuelFlow_LambdaOnFuelRate(inputs) ==
    IF inputs.maf_gps # Undefined /\ Gt(inputs.maf_gps, Zero)
    THEN [fuel_vol_flow_Lps |->
              Div(Div(inputs.maf_gps, Mul(AFR_STOICH, LambdaEff(inputs))),
                  Num(FUEL_DENSITY_G_PER_L)),
          used_maf |-> TRUE, used_fuel_rate |-> FALSE, stale |-> FALSE]
    ELSE IF inputs.fuel_rate_Lh # Undefined /\ Gt(inputs.fuel_rate_Lh, Zero)
    THEN [fuel_vol_flow_Lps |->
              Div(Div(inputs.fuel_rate_Lh, LambdaEff(inputs)), Num(3600)),
          used_maf |-> FALSE, used_fuel_rate |-> TRUE, stale |-> FALSE]
    ELSE [fuel_vol_flow_Lps |-> Zero, used_maf |-> FALSE,
          used_fuel_rate |-> FALSE, stale |-> TRUE]

\* mutant: a maf_gps that is present but not > 0 ends the search for a signal
calculateFuelFlow_StaleOnZeroMaf(inputs) ==
    IF inputs.maf_gps # Undefined
    THEN IF Gt(inputs.maf_gps, Zero)
         THEN [fuel_vol_flow_Lps |->
                   Div(Div(inputs.maf_gps, Mul(AFR_STOICH, LambdaEff(inputs))),
                       Num(FUEL_DENSITY_G_PER_L)),
               used_maf |-> TRUE, used_fuel_rate |-> FALSE, stale |-> FALSE]
         ELSE [fuel_vol_flow_Lps |-> Zero, used_maf |-> FALSE,
               used_fuel_rate |-> FALSE, stale |-> TRUE]
    ELSE IF inputs.fuel_rate_Lh # Undefined /\ Gt(inputs.fuel_rate_Lh, Zero)
    THEN [fuel_vol_flow_Lps |-> Div(inputs.fuel_rate_Lh, Num(3600)),
          used_maf |-> FALSE, used_fuel_rate |-> TRUE, stale |-> FALSE]
    ELSE [fuel_vol_flow_Lps |-> Zero, used_maf |-> FALSE,
          used_fuel_rate |-> FALSE, stale |-> TRUE]

calculateFuelFlow(inputs) ==
    IF inputs.maf_gps # Undefined /\ Gt(inputs.maf_gps, Zero)
    THEN LET lambda_eff == LambdaEff(inputs)
             fuel_mass_flow_gps == Div(inputs.maf_gps, Mul(AFR_STOICH, lambda_eff))
             fuel_vol_flow_Lps == Div(fuel_mass_flow_gps, Num(FUEL_DENSITY_G_PER_L))
         IN  [fuel_vol_flow_Lps |-> fuel_vol_flow_Lps, used_maf |-> TRUE,
              used_fuel_rate |-> FALSE, stale |-> FALSE]
    ELSE IF inputs.fuel_rate_Lh # Undefined /\ Gt(inputs.fuel_rate_Lh, Zero)
    THEN [fuel_vol_flow_Lps |-> Div(inputs.fuel_rate_Lh, Num(3600)),
          used_maf |-> FALSE, used_fuel_rate |-> TRUE, stale |-> FALSE]
    ELSE [fuel_vol_flow_Lps |-> Zero, used_maf |-> FALSE,
          used_fuel_rate |-> FALSE, stale |-> TRUE]

\* mutant: the guardrail without its dt_s test
Rejected_NoDtCheck(inputs) == Lt(inputs.speed_mps, Zero)

\* mutant: the guardrail with dt_s < 0 for dt_s <= 0
Rejected_StrictDt(inputs) == Lt(inputs.dt_s, Zero) \/ Lt(inputs.speed_mps, Zero)

\* the guardrail of ingestTick
Rejected(inputs) == Le(inputs.dt_s, Zero) \/ Lt(inputs.speed_mps, Zero)

\* mutant: 0 for null while no distance has been covered
AvgCo2PerKm_ZeroForNull(total, distance) ==
    IF Gt(distance, Zero) THEN Div(total, distance) ELSE Zero

\* distance > 0 ? total / distance : null
AvgCo2PerKm(total, distance) ==
    IF Gt(distance, Zero) THEN Div(total, distance) ELSE Null

\* mutant: a stale result that also claims the MAF path
getLastStableOutputs_UsedMaf(total, distance) ==
    [co2_gps |-> Zero,
     co2_g_per_km_instant |-> Null,
     total_co2_g |-> total,
     distance_km |-> distance,
     avg_co2_g_per_km |-> AvgCo2PerKm(total, distance),
     flags |-> [used_maf |-> TRUE, used_fuel_rate |-> FALSE, stale |-> TRUE]]

getLastStableOutputs(total, distance) ==
    [co2_gps |-> Zero,
     co2_g_per_km_instant |-> Null,
     total_co2_g |-> total,
     distance_km |-> distance,
     avg_co2_g_per_km |-> AvgCo2PerKm(total, distance),
     flags |-> [used_maf |-> FALSE, used_fuel_rate |-> FALSE, stale |-> TRUE]]

\* mutant: the fuel density in the place of the emission factor
Co2Gps_ByDensity(fuel_vol_flow_Lps) ==
    Mul(fuel_vol_flow_Lps, Num(FUEL_DENSITY_G_PER_L))

Co2Gps(fuel_vol_flow_Lps) == Mul(fuel_vol_flow_Lps, Num(EF_CO2_G_PER_L))

\* mutant: intensity 0 for null at standstill
InstantIntensity_ZeroAtRest(co2_gps, speed_mps) ==
    IF Gt(speed_mps, Zero) THEN Mul(Div(co2_gps, speed_mps), Num(1000)) ELSE Zero

InstantIntensity(co2_gps, speed_mps) ==
    IF Gt(speed_mps, Zero) THEN Mul(Div(co2_gps, speed_mps), Num(1000)) ELSE Null

\* mutant: the mass flow added without the elapsed time
AccumulateCo2_NoDt(total, co2_gps, dt_s) == Add(total, co2_gps)

AccumulateCo2(total, co2_gps, dt_s) == Add(total, Mul(co2_gps, dt_s))

AccumulateDistance(distance, speed_mps, dt_s) ==
    LET distance_m == Mul(speed_mps, dt_s)
    IN  Add(distance, Div(distance_m, Num(1000)))

\* ingestTick as a function of the tick and the totals it starts from:
\* the new totals and the value returned
Tick(inputs, total, distance) ==
    IF Rejected(inputs)
    THEN [total |-> total, distance |-> distance, changed |-> FALSE,
          out |-> getLastStableOutputs(total, distance)]
    ELSE LET flow == calculateFuelFlow(inputs)
         IN  IF flow.stale
             THEN [total |-> total, distance |-> distance, changed |-> FALSE,
                   out |-> getLastStableOutputs(total, distance)]
             ELSE LET co2_gps == Co2Gps(flow.fuel_vol_flow_Lps)
                      instant == InstantIntensity(co2_gps, inputs.speed_mps)
                      newTotal == AccumulateCo2(total, co2_gps, inputs.dt_s)
                      newDistance ==
                          AccumulateDistance(distance, inputs.speed_mps, inputs.dt_s)
                  IN  [total |-> newTotal, distance |-> newDistance,
                       changed |-> TRUE,
                       out |-> [co2_gps |-> co2_gps,
                                co2_g_per_km_instant |-> instant,
                                total_co2_g |-> newTotal,
                                distance_km |-> newDistance,
                                avg_co2_g_per_km |->
                                    AvgCo2PerKm(newTotal, newDistance),
                                flags |-> [used_maf |-> flow.used_maf,
                                           used_fuel_rate |-> flow.used_fuel_rate,
                                           stale |-> flow.stale]]]

\* mutant: reset() that forgets total_co2_g
ResetTotals_KeepCo2 == [total |-> total_co2_g, distance |-> Zero]

\* mutant: reset() that forgets distance_km
ResetTotals_KeepDistance == [total |-> Zero, distance |-> distance_km]

\* the fields reset() assigns
ResetTotals == [total |-> Zero, distance |-> Zero]

Summary(total, distance) ==
    [total_co2_g |-> total,
     distance_km |-> distance,
     avg_co2_g_per_km |-> AvgCo2PerKm(total, distance)]

\* new EmissionsCalculator()
EstimatorInit ==
    /\ total_co2_g = Zero
    /\ distance_km = Zero
    /\ accepted = 0
    /\ lastOp = "new"
    /\ lastIn = NoInputs
    /\ pre_co2 = Zero
    /\ pre_km = Zero
    /\ ret = Void

\* no parseOBDResponse call under way
DecoderIdle ==
    /\ pid = ""
    /\ response = << >>
    /\ decoded = Undefined
    /\ dpc = "idle"

\* the start screen as mounted: no WiFiOBDService yet, no trip
ScreenMounted ==
    /\ wifiOBDServiceRef = FALSE
    /\ isConnected = FALSE
    /\ readingInterval = FALSE
    /\ socket = "null"
    /\ connectPc = "idle"
    /\ fallbackTimers = 0
    /\ received = 0
    /\ isTracking = FALSE
    /\ obdEnabled = FALSE
    /\ obdConnected = FALSE
    /\ obdConnecting = FALSE
    /\ wifiConfigVisible = FALSE
    /\ speed = Zero
    /\ maf = Zero
    /\ emissions = Zero
    /\ distanceShown = Zero
    /\ routeStarted = FALSE
    /\ telemetryRef = FALSE
    /\ pendingStart = {}
    /\ watchRef = {}
    /\ sampled = FALSE
    /\ ingested = 0
    /\ telemetryBy = "reset"
    /\ attempt = "none"
    /\ sinceDisconnect = FALSE
    /\ tripTicks = << >>
    /\ tickCount = 0
    /\ gpsCount = 0

\* the start screen left alone
ScreenIdle ==
    /\ platform = "ios"
    /\ ScreenMounted

\* new OBDService()
BleIdle ==
    /\ connectedDevice = FALSE
    /\ blePc = "idle"
    /\ bleReaders = 0
    /\ bleFired = 0
    /\ bleCalls = 0
    /\ bleConnects = 0
    /\ bleData = [speed |-> Zero, maf |-> Zero]

Init == EstimatorInit /\ DecoderIdle /\ ScreenIdle /\ BleIdle

reset ==
    /\ total_co2_g' = ResetTotals.total
    /\ distance_km' = ResetTotals.distance
    /\ accepted' = 0
    /\ lastOp' = "reset"
    /\ lastIn' = NoInputs
    /\ pre_co2' = total_co2_g
    /\ pre_km' = distance_km
    /\ ret' = Void
    /\ UNCHANGED <<dvars, avars, bvars>>

ingestTick(inputs) ==
    LET t == Tick(inputs, total_co2_g, distance_km)
    IN  /\ accepted < MaxTicks
        /\ total_co2_g' = t.total
        /\ distance_km' = t.distance
        /\ accepted' = IF t.changed THEN accepted + 1 ELSE accepted
        /\ lastOp' = "ingestTick"
        /\ lastIn' = inputs
        /\ pre_co2' = total_co2_g
        /\ pre_km' = distance_km
        /\ ret' = t.out
        /\ UNCHANGED <<dvars, avars, bvars>>

IngestTick == \E inputs \in Ticks : ingestTick(inputs)

\* mutant: a summary that consumes the totals it reports
getSummary_Consumes ==
    /\ lastOp' = "getSummary"
    /\ lastIn' = NoInputs
    /\ pre_co2' = total_co2_g
    /\ pre_km' = distance_km
    /\ ret' = Summary(total_co2_g, distance_km)
    /\ total_co2_g' = Zero
    /\ distance_km' = Zero
    /\ accepted' = 0
    /\ UNCHANGED <<dvars, avars, bvars>>

getSummary ==
    /\ lastOp' = "getSummary"
    /\ lastIn' = NoInputs
    /\ pre_co2' = total_co2_g
    /\ pre_km' = distance_km
    /\ ret' = Summary(total_co2_g, distance_km)
    /\ UNCHANGED <<total_co2_g, distance_km, accepted>>
    /\ UNCHANGED <<dvars, avars, bvars>>

Next == reset \/ IngestTick \/ getSummary

Spec == Init /\ [][Next]_vars

(***************************************************************************)
(* The ticks a statement speaks of, in its own words                       *)
(***************************************************************************)
PassesGuard(i) == Gt(i.dt_s, Zero) /\ Ge(i.speed_mps, Zero)

MafPositive(i) == i.maf_gps # Undefined /\ Gt(i.maf_gps, Zero)

FuelRatePositive(i) == i.fuel_rate_Lh # Undefined /\ Gt(i.fuel_rate_Lh, Zero)

AcceptedTick(i) == PassesGuard(i) /\ (MafPositive(i) \/ FuelRatePositive(i))

Ingested == lastOp = "ingestTick"

(***************************************************************************)
(* C1: with no reset() in between, total_co2_g and distance_km never       *)
(* decrease: an accepted tick (dt_s > 0, speed_mps >= 0, a positive fuel   *)
(* signal) leaves each total >= its pre-tick value, a rejected tick and    *)
(* getSummary leave it equal.                                              *)
(***************************************************************************)
C1_TotalsNeverDecrease ==
    /\ lastOp \in {"ingestTick", "getSummary"} =>
           Ge(total_co2_g, pre_co2) /\ Ge(distance_km, pre_km)
    /\ Ingested /\ ~AcceptedTick(lastIn) =>
           total_co2_g = pre_co2 /\ distance_km = pre_km

C1_Witness ==
    /\ Ingested /\ AcceptedTick(lastIn)
    /\ Gt(pre_co2, Zero) /\ Gt(pre_km, Zero)
    /\ Gt(total_co2_g, pre_co2) /\ Gt(distance_km, pre_km)

(***************************************************************************)
(* C2: a tick with dt_s <= 0 or speed_mps < 0, whatever its fuel signals   *)
(* and lambda, leaves both totals unchanged and returns stale = true,      *)
(* co2_gps = 0 and the pre-tick totals.                                    *)
(***************************************************************************)
C2_InvalidTickRejected ==
    Ingested /\ (Le(lastIn.dt_s, Zero) \/ Lt(lastIn.speed_mps, Zero)) =>
        /\ total_co2_g = pre_co2
        /\ distance_km = pre_km
        /\ ret.flags.stale = TRUE
        /\ ret.co2_gps = Zero
        /\ ret.total_co2_g = pre_co2
        /\ ret.distance_km = pre_km

C2_Witness ==
    /\ Ingested
    /\ lastIn.dt_s = Zero /\ MafPositive(lastIn)
    /\ Gt(pre_co2, Zero)
    /\ ret.flags.stale = TRUE

(***************************************************************************)
(* C3: a tick that passes the guard but has neither maf_gps > 0 nor        *)
(* fuel_rate_Lh > 0 returns stale = true, co2_gps = 0, no instantaneous    *)
(* intensity (null), and the returned and stored totals are the pre-tick   *)
(* ones.                                                                   *)
(***************************************************************************)
C3_NoSignalIsStale ==
    Ingested /\ PassesGuard(lastIn)
             /\ ~MafPositive(lastIn) /\ ~FuelRatePositive(lastIn) =>
        /\ ret.flags.stale = TRUE
        /\ ret.co2_gps = Zero
        /\ ret.co2_g_per_km_instant = Null
        /\ ret.total_co2_g = pre_co2
        /\ ret.distance_km = pre_km
        /\ total_co2_g = pre_co2
        /\ distance_km = pre_km

C3_Witness ==
    /\ Ingested /\ PassesGuard(lastIn)
    /\ lastIn.maf_gps = Zero /\ lastIn.fuel_rate_Lh = Undefined
    /\ Gt(pre_co2, Zero)
    /\ ret.flags.stale = TRUE

(***************************************************************************)
(* C4: an accepted tick changes the state exactly once: afterwards         *)
(* total_co2_g = pre + co2_gps * dt_s and distance_km = pre + speed_mps *  *)
(* dt_s / 1000, and the call returns these new totals; a tick that is not  *)
(* accepted, and getSummary, change neither total.                         *)
(***************************************************************************)
C4_AccumulatesOnce ==
    /\ Ingested /\ AcceptedTick(lastIn) =>
           /\ total_co2_g = Add(pre_co2, Mul(ret.co2_gps, lastIn.dt_s))
           /\ distance_km =
                  Add(pre_km, Div(Mul(lastIn.speed_mps, lastIn.dt_s), Num(1000)))
           /\ ret.total_co2_g = total_co2_g
           /\ ret.distance_km = distance_km
    /\ (Ingested /\ ~AcceptedTick(lastIn)) \/ lastOp = "getSummary" =>
           total_co2_g = pre_co2 /\ distance_km = pre_km

C4_Witness ==
    /\ Ingested /\ AcceptedTick(lastIn)
    /\ lastIn.dt_s = Num(2) /\ Gt(lastIn.speed_mps, Zero)
    /\ Gt(pre_co2, Zero)
    /\ Gt(ret.total_co2_g, pre_co2)

(***************************************************************************)
(* C5: when maf_gps > 0 and fuel_rate_Lh > 0 are both present on a tick    *)
(* that passes the guard, used_maf = true, used_fuel_rate = false, and     *)
(* co2_gps and the totals are those of the same tick without fuel_rate_Lh. *)
(***************************************************************************)
C5_MafHasPriority ==
    Ingested /\ PassesGuard(lastIn)
             /\ MafPositive(lastIn) /\ FuelRatePositive(lastIn) =>
        LET alone == Tick([lastIn EXCEPT !.fuel_rate_Lh = Undefined],
                          pre_co2, pre_km)
        IN  /\ ret.flags.used_maf = TRUE
            /\ ret.flags.used_fuel_rate = FALSE
            /\ ret.co2_gps = alone.out.co2_gps
            /\ ret.total_co2_g = alone.out.total_co2_g
            /\ total_co2_g = alone.total
            /\ distance_km = alone.distance

C5_Witness ==
    /\ Ingested /\ PassesGuard(lastIn)
    /\ MafPositive(lastIn) /\ FuelRatePositive(lastIn)
    /\ ret.flags.used_maf = TRUE
    /\ Gt(ret.co2_gps, Zero)

(***************************************************************************)
(* C6: on the MAF path of an accepted tick, co2_gps = maf_gps / (14.7 *    *)
(* lambda_eff) / 745 * 2340; from a fresh estimator the tick maf_gps =     *)
(* 14.7, lambda_equiv = 1.0, speed_mps = 10, dt_s = 1 gives co2_gps =      *)
(* 2340/745, co2_g_per_km_instant = 234000/745, distance_km = 0.01 and     *)
(* total_co2_g = 2340/745.                                                 *)
(***************************************************************************)
C6_ExampleTick(i) ==
    /\ i.maf_gps = Rat(147, 10) /\ i.lambda_equiv = Num(1)
    /\ i.speed_mps = Num(10) /\ i.dt_s = Num(1)

C6_MafFormula ==
    /\ Ingested /\ PassesGuard(lastIn) /\ MafPositive(lastIn) =>
           ret.co2_gps =
               Mul(Div(Div(lastIn.maf_gps, Mul(Rat(147, 10), LambdaEff(lastIn))),
                       Num(745)),
                   Num(2340))
    /\ Ingested /\ C6_ExampleTick(lastIn) /\ pre_co2 = Zero /\ pre_km = Zero =>
           /\ ret.co2_gps = Rat(2340, 745)
           /\ ret.co2_g_per_km_instant = Rat(234000, 745)
           /\ ret.distance_km = Rat(1, 100)
           /\ ret.total_co2_g = Rat(2340, 745)
           /\ distance_km = Rat(1, 100)
           /\ total_co2_g = Rat(2340, 745)

C6_Witness ==
    /\ Ingested /\ C6_ExampleTick(lastIn) /\ pre_co2 = Zero /\ pre_km = Zero
    /\ ret.flags.used_maf = TRUE
    /\ ret.co2_gps = Rat(2340, 745)

(***************************************************************************)
(* C7: on the fuel-rate path (no maf_gps > 0, fuel_rate_Lh > 0) of an      *)
(* accepted tick, used_fuel_rate = true, used_maf = false and co2_gps =    *)
(* fuel_rate_Lh / 3600 * 2340 whatever lambda_equiv is; fuel_rate_Lh = 3.6 *)
(* with speed_mps > 0 and dt_s = 1 gives co2_gps = 2.34 and adds 2.34 g to *)
(* total_co2_g.                                                            *)
(***************************************************************************)
C7_FuelRatePath(i) ==
    PassesGuard(i) /\ ~MafPositive(i) /\ FuelRatePositive(i)

C7_FuelRateFormula ==
    /\ Ingested /\ C7_FuelRatePath(lastIn) =>
           /\ ret.flags.used_fuel_rate = TRUE
           /\ ret.flags.used_maf = FALSE
           /\ ret.co2_gps = Mul(Div(lastIn.fuel_rate_Lh, Num(3600)), Num(2340))
    /\ Ingested /\ C7_FuelRatePath(lastIn) /\ lastIn.fuel_rate_Lh = Rat(18, 5)
                /\ Gt(lastIn.speed_mps, Zero) /\ lastIn.dt_s = Num(1) =>
           /\ ret.co2_gps = Rat(234, 100)
           /\ total_co2_g = Add(pre_co2, Rat(234, 100))

C7_Witness ==
    /\ Ingested /\ C7_FuelRatePath(lastIn)
    /\ lastIn.lambda_equiv = Rat(1, 2)
    /\ lastIn.dt_s = Num(1) /\ Gt(lastIn.speed_mps, Zero)
    /\ Gt(pre_co2, Zero)
    /\ ret.co2_gps = Rat(234, 100)

(***************************************************************************)
(* C8: on an accepted tick co2_g_per_km_instant = (co2_gps / speed_mps) *  *)
(* 1000 when speed_mps > 0 and null, not 0, when speed_mps = 0; an         *)
(* accepted tick at speed 0 still adds co2_gps * dt_s to total_co2_g and   *)
(* leaves distance_km unchanged.                                           *)
(***************************************************************************)
C8_InstantIntensity ==
    /\ Ingested /\ AcceptedTick(lastIn) /\ Gt(lastIn.speed_mps, Zero) =>
           ret.co2_g_per_km_instant =
               Mul(Div(ret.co2_gps, lastIn.speed_mps), Num(1000))
    /\ Ingested /\ AcceptedTick(lastIn) /\ lastIn.speed_mps = Zero =>
           /\ ret.co2_g_per_km_instant = Null
           /\ ret.co2_g_per_km_instant # Zero
           /\ Gt(ret.co2_gps, Zero)
           /\ total_co2_g = Add(pre_co2, Mul(ret.co2_gps, lastIn.dt_s))
           /\ distance_km = pre_km

C8_Witness ==
    /\ Ingested /\ AcceptedTick(lastIn) /\ lastIn.speed_mps = Zero
    /\ Gt(total_co2_g, pre_co2)
    /\ Gt(pre_km, Zero) /\ distance_km = pre_km

(***************************************************************************)
(* C9: in every value ingestTick (accepted or stale) and getSummary        *)
(* return, avg_co2_g_per_km is null exactly when the returned distance_km  *)
(* is 0 and is otherwise the returned total_co2_g / distance_km, also when *)
(* CO2 has accumulated at standstill (total_co2_g > 0, distance_km = 0).   *)
(***************************************************************************)
C9_AverageIntensity ==
    lastOp \in {"ingestTick", "getSummary"} =>
        /\ (ret.avg_co2_g_per_km = Null) <=> (ret.distance_km = Zero)
        /\ ret.distance_km # Zero =>
               ret.avg_co2_g_per_km = Div(ret.total_co2_g, ret.distance_km)

C9_Witness ==
    /\ lastOp = "getSummary"
    /\ Gt(ret.total_co2_g, Zero) /\ ret.distance_km = Zero
    /\ ret.avg_co2_g_per_km = Null

(***************************************************************************)
(* C10: after any ticks, reset() directly followed by getSummary() returns *)
(* total_co2_g = 0, distance_km = 0 and avg_co2_g_per_km = null.           *)
(***************************************************************************)
C10_SummaryAfterReset ==
    [][lastOp = "reset" /\ lastOp' = "getSummary" =>
           ret' = [total_co2_g |-> Zero, distance_km |-> Zero,
                   avg_co2_g_per_km |-> Null]]_vars

\* reset() has cleared totals that ticks had accumulated; getSummary can follow
C10_Witness ==
    /\ lastOp = "reset"
    /\ Gt(pre_co2, Zero) /\ Gt(pre_km, Zero)
    /\ ENABLED getSummary

(***************************************************************************)
(* C11: reset() is idempotent (a second reset() leaves the state of the    *)
(* first), and it only sets the next tick's baseline: the first accepted   *)
(* tick after reset() gives total_co2_g = co2_gps * dt_s and distance_km = *)
(* speed_mps * dt_s / 1000 for that tick alone, whatever was ingested      *)
(* before the reset.                                                       *)
(***************************************************************************)
C11_ResetBaseline ==
    [][/\ lastOp = "reset" /\ lastOp' = "reset" =>
              total_co2_g' = total_co2_g /\ distance_km' = distance_km
       /\ accepted = 0 /\ lastOp' = "ingestTick" /\ AcceptedTick(lastIn') =>
              /\ total_co2_g' = Mul(ret'.co2_gps, lastIn'.dt_s)
              /\ distance_km' =
                     Div(Mul(lastIn'.speed_mps, lastIn'.dt_s), Num(1000))
              /\ ret'.total_co2_g = total_co2_g'
              /\ ret'.distance_km = distance_km'
              /\ ret' = Tick(lastIn', Zero, Zero).out]_vars

\* reset() has cleared accumulated totals and an accepted tick can follow
C11_Witness ==
    /\ lastOp = "reset"
    /\ Gt(pre_co2, Zero) /\ Gt(pre_km, Zero)
    /\ accepted = 0 /\ accepted < MaxTicks
    /\ \E i \in Ticks : AcceptedTick(i) /\ Tick(i, total_co2_g, distance_km).changed

(***************************************************************************)
(* C12: getSummary() does not change the estimator: total_co2_g and        *)
(* distance_km are unchanged by it, two getSummary calls in a row return   *)
(* equal values, and a getSummary call put before a tick does not change   *)
(* what ingestTick does with that tick.                                    *)
(***************************************************************************)
C12_SummaryReadOnly ==
    [][lastOp' = "getSummary" =>
           /\ total_co2_g' = total_co2_g
           /\ distance_km' = distance_km
           /\ ret'.total_co2_g = total_co2_g
           /\ ret'.distance_km = distance_km
           /\ lastOp = "getSummary" => ret' = ret
           /\ \A i \in Ticks :
                  Tick(i, total_co2_g', distance_km') =
                      Tick(i, total_co2_g, distance_km)]_vars

C12_Witness ==
    /\ lastOp = "getSummary"
    /\ Gt(total_co2_g, Zero) /\ Gt(distance_km, Zero)
    /\ ret.total_co2_g = total_co2_g
    /\ pre_co2 = total_co2_g

(***************************************************************************)
(* C13: on the MAF path lambda_eff = max(0.8, lambda_equiv) whenever       *)
(* lambda_equiv is supplied and 1.0 only when it is absent, so every       *)
(* supplied lambda_equiv below 0.8 (0 and negative values too) gives the   *)
(* fuel flow of lambda 0.8, and lambda_eff is never below 0.8.             *)
(***************************************************************************)
C13_ClaimedLambdaEff(i) ==
    IF i.lambda_equiv = Undefined
    THEN Num(1)
    ELSE MathMax(Rat(4, 5), i.lambda_equiv)

C13_LambdaFloor ==
    Ingested /\ PassesGuard(lastIn) /\ MafPositive(lastIn) =>
        /\ Ge(LambdaEff(lastIn), Rat(4, 5))
        /\ LambdaEff(lastIn) = C13_ClaimedLambdaEff(lastIn)
        /\ ret.co2_gps =
               Mul(Div(Div(lastIn.maf_gps,
                           Mul(Rat(147, 10), C13_ClaimedLambdaEff(lastIn))),
                       Num(745)),
                   Num(2340))

(***************************************************************************)
(* C14: the estimator is fresh (total_co2_g = 0 and distance_km = 0)       *)
(* exactly when no tick has been accepted since construction or the last   *)
(* reset(); an accepted tick leaves it accumulated (total_co2_g > 0),      *)
(* reset() leaves it fresh, and invalid or stale ticks change nothing.     *)
(***************************************************************************)
Fresh == total_co2_g = Zero /\ distance_km = Zero

C14_TwoStates ==
    /\ Fresh <=> accepted = 0
    /\ ~Fresh => Gt(total_co2_g, Zero)
    /\ Ingested /\ AcceptedTick(lastIn) => accepted >= 1 /\ Gt(total_co2_g, Zero)
    /\ lastOp \in {"new", "reset"} => Fresh
    /\ Ingested /\ ~AcceptedTick(lastIn) =>
           total_co2_g = pre_co2 /\ distance_km = pre_km

C14_Witness ==
    /\ Ingested /\ AcceptedTick(lastIn)
    /\ pre_co2 = Zero /\ pre_km = Zero
    /\ Gt(total_co2_g, Zero) /\ distance_km = Zero
    /\ accepted = 1

(***************************************************************************)
(* C16: a fuel signal equal to zero counts as missing: a tick passing the  *)
(* guard with maf_gps = 0 and fuel_rate_Lh > 0 is accepted on the          *)
(* fuel-rate path, and one with maf_gps = 0 and fuel_rate_Lh absent or 0   *)
(* is stale with the totals unchanged.                                     *)
(***************************************************************************)
C16_ZeroSignalIsMissing ==
    Ingested /\ PassesGuard(lastIn) /\ lastIn.maf_gps = Zero =>
        IF FuelRatePositive(lastIn)
        THEN /\ ret.flags.used_fuel_rate = TRUE
             /\ ret.flags.used_maf = FALSE
             /\ ret.flags.stale = FALSE
             /\ Gt(total_co2_g, pre_co2)
        ELSE /\ ret.flags.stale = TRUE
             /\ total_co2_g = pre_co2
             /\ distance_km = pre_km

C16_Witness ==
    /\ Ingested /\ PassesGuard(lastIn)
    /\ lastIn.maf_gps = Zero /\ FuelRatePositive(lastIn)
    /\ ret.flags.used_fuel_rate = TRUE
    /\ Gt(pre_co2, Zero)

(***************************************************************************)
(* The estimator fed ticks whose numbers may be NaN                        *)
(***************************************************************************)
NaNTicks ==
    [dt_s : {Num(1), NaN}, speed_mps : {Zero, Num(10), NaN},
     maf_gps : {Undefined, Rat(147, 10), NaN},
     fuel_rate_Lh : {Undefined, Rat(18, 5), NaN},
     lambda_equiv : {Undefined, NaN}]

IngestTickNaN == \E inputs \in NaNTicks : ingestTick(inputs)

NextNaN == reset \/ IngestTickNaN \/ getSummary

SpecNaN == Init /\ [][NextNaN]_vars

(***************************************************************************)
(* C15: malformed numeric input never corrupts the totals: a tick whose    *)
(* dt_s, speed_mps or fuel signal is NaN is rejected (stale = true, totals *)
(* equal to their pre-tick values), so both totals are valid numbers in    *)
(* every reachable state.                                                  *)
(***************************************************************************)
C15_MalformedTick(i) ==
    \/ i.dt_s = NaN
    \/ i.speed_mps = NaN
    \/ /\ i.maf_gps = NaN \/ i.fuel_rate_Lh = NaN
       /\ ~MafPositive(i) /\ ~FuelRatePositive(i)

C15_NaNRejected ==
    /\ IsNum(total_co2_g) /\ IsNum(distance_km)
    /\ Ingested /\ C15_MalformedTick(lastIn) =>
           /\ ret.flags.stale = TRUE
           /\ total_co2_g = pre_co2 /\ distance_km = pre_km
           /\ ret.total_co2_g = pre_co2 /\ ret.distance_km = pre_km

(***************************************************************************)
(* OBDService.parseOBDResponse: the PID decoder.                           *)
(* A string is the sequence of its characters.                             *)
(***************************************************************************)
HexDigits ==
    <<"0", "1", "2", "3", "4", "5", "6", "7", "8", "9",
      "A", "B", "C", "D", "E", "F">>

LowerLetters ==
    <<"a", "b", "c", "d", "e", "f", "g", "h", "i", "j", "k", "l", "m",
      "n", "o", "p", "q", "r", "s", "t", "u", "v", "w", "x", "y", "z">>

UpperLetters ==
    <<"A", "B", "C", "D", "E", "F", "G", "H", "I", "J", "K", "L", "M",
      "N", "O", "P", "Q", "R", "S", "T", "U", "V", "W", "X", "Y", "Z">>

\* the characters /\s/ matches, among those drawn
Whitespace == {" ", "\t", "\n", "\r"}

IndexOf(seq, c) ==
    IF \E i \in 1..Len(seq) : seq[i] = c
    THEN CHOOSE i \in 1..Len(seq) : seq[i] = c
    ELSE 0

UpperChar(c) ==
    IF IndexOf(LowerLetters, c) # 0 THEN UpperLetters[IndexOf(LowerLetters, c)] ELSE c

LowerChar(c) ==
    IF IndexOf(UpperLetters, c) # 0 THEN LowerLetters[IndexOf(UpperLetters, c)] ELSE c

IsWhitespace(c) == c \in Whitespace

\* String.prototype.toUpperCase
toUpperCase(str) == [i \in 1..Len(str) |-> UpperChar(str[i])]

\* str.replace(/\s/g, '')
removeWhitespace(str) == SelectSeq(str, LAMBDA c : ~IsWhitespace(c))

\* str.substring(from, to) for 0 <= from <= to, and str.substring(from)
substring(str, from, to) ==
    LET hi == IF to < Len(str) THEN to ELSE Len(str)
    IN  IF from >= hi THEN << >> ELSE SubSeq(str, from + 1, hi)

substringFrom(str, from) == substring(str, from, Len(str))

\* the value of a hexadecimal digit of either case, -1 for any other character
DigitValue(c) == IndexOf(HexDigits, UpperChar(c)) - 1

RECURSIVE SkipWhitespace(_)
SkipWhitespace(str) ==
    IF Len(str) > 0 /\ IsWhitespace(str[1]) THEN SkipWhitespace(Tail(str)) ELSE str

\* the value of the longest prefix of hexadecimal digits, after acc
RECURSIVE HexPrefixValue(_, _)
HexPrefixValue(str, acc) ==
    IF Len(str) > 0 /\ DigitValue(str[1]) >= 0
    THEN HexPrefixValue(Tail(str), acc * 16 + DigitValue(str[1]))
    ELSE acc

\* mutant: parseInt(str) without the radix (decimal digits only)
parseInt16_Decimal(str) ==
    LET RECURSIVE DecPrefixValue(_, _)
        DecPrefixValue(t, acc) ==
            IF Len(t) > 0 /\ DigitValue(t[1]) >= 0 /\ DigitValue(t[1]) <= 9
            THEN DecPrefixValue(Tail(t), acc * 10 + DigitValue(t[1]))
            ELSE acc
    IN  IF Len(str) > 0 /\ DigitValue(str[1]) >= 0 /\ DigitValue(str[1]) <= 9
        THEN Num(DecPrefixValue(str, 0))
        ELSE NaN

\* parseInt(str, 16): leading whitespace, a sign, a 0x prefix, then the
\* longest prefix of hexadecimal digits; NaN when there is none
parseInt16(str) ==
    LET t == SkipWhitespace(str)
        signed == Len(t) > 0 /\ t[1] \in {"+", "-"}
        sign == IF Len(t) > 0 /\ t[1] = "-" THEN -1 ELSE 1
        u == IF signed THEN Tail(t) ELSE t
        v == IF Len(u) >= 2 /\ u[1] = "0" /\ u[2] \in {"x", "X"}
             THEN SubSeq(u, 3, Len(u))
             ELSE u
    IN  IF Len(v) > 0 /\ DigitValue(v[1]) >= 0
        THEN Num(sign * HexPrefixValue(v, 0))
        ELSE NaN

\* this.PIDS
PID_SPEED == "010D"

PID_RPM == "010C"

PID_MAF == "0110"

PID_ENGINE_LOAD == "0104"

PID_THROTTLE == "0111"

PIDS == {PID_SPEED, PID_RPM, PID_MAF, PID_ENGINE_LOAD, PID_THROTTLE}

\* mutant: whitespace trimmed at the two ends only (trim() for replace(/\s/g))
cleanResponse_TrimOnly(str) ==
    LET RECURSIVE DropTrailing(_)
        DropTrailing(t) ==
            IF Len(t) > 0 /\ IsWhitespace(t[Len(t)])
            THEN DropTrailing(SubSeq(t, 1, Len(t) - 1))
            ELSE t
    IN  toUpperCase(DropTrailing(SkipWhitespace(str)))

\* response.replace(/\s/g, '').toUpperCase()
cleanResponse(str) == toUpperCase(removeWhitespace(str))

\* cleanResponse.substring(4)
dataBytes(str) == substringFrom(cleanResponse(str), 4)

\* mutant: a PID without a case of its own decoded like the speed
parseOBDResponse_NoDefault(str, p) ==
    LET data == dataBytes(str)
        A == parseInt16(substring(data, 0, 2))
        B == parseInt16(substring(data, 2, 4))
    IN  IF p \in {PID_RPM}
        THEN Div(Add(Mul(A, Num(256)), B), Num(4))
        ELSE IF p = PID_MAF
        THEN Div(Add(Mul(A, Num(256)), B), Num(100))
        ELSE IF p \in {PID_ENGINE_LOAD, PID_THROTTLE}
        THEN Div(Mul(A, Num(100)), Num(255))
        ELSE A

parseOBDResponse(str, p) ==
    LET data == dataBytes(str)
    IN  CASE p = PID_SPEED ->
                 parseInt16(substring(data, 0, 2))
          [] p = PID_RPM ->
                 LET rpmA == parseInt16(substring(data, 0, 2))
                     rpmB == parseInt16(substring(data, 2, 4))
                 IN  Div(Add(Mul(rpmA, Num(256)), rpmB), Num(4))
          [] p = PID_MAF ->
                 LET mafA == parseInt16(substring(data, 0, 2))
                     mafB == parseInt16(substring(data, 2, 4))
                 IN  Div(Add(Mul(mafA, Num(256)), mafB), Num(100))
          [] p = PID_ENGINE_LOAD ->
                 LET loadA == parseInt16(substring(data, 0, 2))
                 IN  Div(Mul(loadA, Num(100)), Num(255))
          [] p = PID_THROTTLE ->
                 LET throttleA == parseInt16(substring(data, 0, 2))
                 IN  Div(Mul(throttleA, Num(100)), Num(255))
          [] OTHER -> Zero

(***************************************************************************)
(* The responses and PIDs drawn                                            *)
(***************************************************************************)
ByteValues == {0, 1, 26, 44, 50, 144, 255}

HexByte(b) == <<HexDigits[(b \div 16) + 1], HexDigits[(b % 16) + 1]>>

\* mode + PID echo
Headers ==
    {HexByte(65) \o HexByte(13), HexByte(65) \o HexByte(12),
     HexByte(0) \o HexByte(255)}

\* header and one or two data bytes, no whitespace, upper case
CompactResponses ==
    {h \o HexByte(a) : h \in Headers, a \in ByteValues}
        \cup {h \o HexByte(a) \o HexByte(b) :
                  h \in Headers, a \in ByteValues, b \in ByteValues}

toLowerCase(str) == [i \in 1..Len(str) |-> LowerChar(str[i])]

\* the adapter's layout: a space after every byte and a closing carriage return
RECURSIVE Spaced(_)
Spaced(str) ==
    IF Len(str) <= 2
    THEN str \o <<" ", "\r">>
    ELSE SubSeq(str, 1, 2) \o <<" ">> \o Spaced(SubSeq(str, 3, Len(str)))

\* empty, header only, a data byte cut short, data that is not hexadecimal
MalformedResponses ==
    {<< >>, <<"\r">>, <<"4", "1">>,
     <<"N", "O", " ", "D", "A", "T", "A">>, <<"?">>}
        \cup Headers
        \cup {h \o <<"5">> : h \in Headers}
        \cup {h \o <<"1", "A", "2">> : h \in Headers}
        \cup {h \o d : h \in Headers,
                       d \in {<<"G", "G">>, <<"5", "G">>, <<"0", "x">>,
                              <<"-", "5">>, <<"1", "A", "Z", "Z">>}}

Responses ==
    CompactResponses
        \cup {toLowerCase(r) : r \in CompactResponses}
        \cup {Spaced(r) : r \in CompactResponses}
        \cup {toLowerCase(Spaced(r)) : r \in CompactResponses}
        \cup MalformedResponses

\* the five PIDs of this.PIDS and others (a bare PID byte, another service
\* 01 PID, the empty string)
QueryPids == PIDS \cup {"0D", "0105", ""}

DecoderInit ==
    /\ pid \in QueryPids
    /\ response \in Responses
    /\ decoded = Undefined
    /\ dpc = "query"

\* one call parseOBDResponse(response, pid)
decode ==
    /\ dpc = "query"
    /\ decoded' = parseOBDResponse(response, pid)
    /\ dpc' = "done"
    /\ UNCHANGED <<pid, response>>
    /\ UNCHANGED <<evars, avars, bvars>>

NextDecoder == decode

InitDecoder == EstimatorInit /\ DecoderInit /\ ScreenIdle /\ BleIdle

SpecDecoder == InitDecoder /\ [][NextDecoder]_vars

Decoded == dpc = "done"

(***************************************************************************)
(* The responses a statement speaks of, in its own words                   *)
(***************************************************************************)
\* the data bytes the formula of a PID reads
BytesNeeded(p) == IF p \in {PID_RPM, PID_MAF} THEN 2 ELSE 1

IsHexChar(c) == DigitValue(c) >= 0

\* a 4-hex-character header followed by at least n data bytes, all hexadecimal
WellFormed(r, n) ==
    /\ Len(r) >= 4 + 2 * n
    /\ \A i \in 1..(4 + 2 * n) : IsHexChar(r[i])

\* data byte k (1 = A, 2 = B) of a well-formed response
DataByte(r, k) == 16 * DigitValue(r[3 + 2 * k]) + DigitValue(r[4 + 2 * k])

(***************************************************************************)
(* C17: for a well-formed response (4-hex-character header, then the data  *)
(* bytes A, B) the decoder returns speed = A, RPM = (A*256 + B)/4, MAF =   *)
(* (A*256 + B)/100, engine load = A*100/255, throttle = A*100/255; data    *)
(* byte 32 gives speed 50, bytes 1A 2C give 1675 RPM, bytes 01 90 give     *)
(* MAF 4.                                                                  *)
(***************************************************************************)
C17_DecodingFormulas ==
    Decoded /\ pid \in PIDS /\ WellFormed(response, BytesNeeded(pid)) =>
        LET A == DataByte(response, 1)
            B == DataByte(response, 2)
            data == SubSeq(response, 5, 4 + 2 * BytesNeeded(pid))
        IN  /\ pid = PID_SPEED => decoded = Num(A)
            /\ pid = PID_RPM => decoded = Rat(A * 256 + B, 4)
            /\ pid = PID_MAF => decoded = Rat(A * 256 + B, 100)
            /\ pid = PID_ENGINE_LOAD => decoded = Rat(A * 100, 255)
            /\ pid = PID_THROTTLE => decoded = Rat(A * 100, 255)
            /\ pid = PID_SPEED /\ data = <<"3", "2">> => decoded = Num(50)
            /\ pid = PID_RPM /\ data = <<"1", "A", "2", "C">> =>
                   decoded = Num(1675)
            /\ pid = PID_MAF /\ data = <<"0", "1", "9", "0">> =>
                   decoded = Num(4)

C17_Witness ==
    /\ Decoded /\ pid = PID_RPM
    /\ response = <<"4", "1", "0", "C", "1", "A", "2", "C">>
    /\ decoded = Num(1675)

(***************************************************************************)
(* C18: the decoder's result does not depend on whitespace or letter case  *)
(* (decoding r gives what decoding r with all whitespace removed and all   *)
(* letters upper-cased gives), nor on the first 4 characters (mode + PID   *)
(* echo).                                                                  *)
(***************************************************************************)
C18_Canonical(r) ==
    LET kept == SelectSeq(r, LAMBDA c : c \notin {" ", "\t", "\n", "\r"})
    IN  [i \in 1..Len(kept) |-> UpperChar(kept[i])]

C18_OtherHeaders == Headers \cup {<<"Z", "Z", "Z", "Z">>, <<"4", "1", "1", "0">>}

C18_WhitespaceCaseHeader ==
    Decoded =>
        LET canon == C18_Canonical(response)
        IN  /\ decoded = parseOBDResponse(canon, pid)
            /\ Len(canon) >= 4 =>
                   \A h \in C18_OtherHeaders :
                       decoded =
                           parseOBDResponse(h \o SubSeq(canon, 5, Len(canon)), pid)

C18_Witness ==
    /\ Decoded /\ pid = PID_RPM
    /\ response =
           <<"4", "1", " ", "0", "c", " ", "1", "a", " ", "2", "c", " ", "\r">>
    /\ decoded = Num(1675)

(***************************************************************************)
(* C19: for a PID that is not speed, RPM, MAF, engine load or throttle the *)
(* decoder returns 0, whatever the response.                               *)
(***************************************************************************)
C19_UnknownPidIsZero ==
    Decoded /\ pid \notin {"010D", "010C", "0110", "0104", "0111"} =>
        decoded = Zero

C19_Witness ==
    /\ Decoded /\ pid = "0D"
    /\ response = <<"4", "1", "0", "D", "3", "2">>
    /\ decoded = Zero

(***************************************************************************)
(* C20: for each of the five supported PIDs the decoder returns exactly 0  *)
(* for a malformed or short response: the empty string, the header alone,  *)
(* fewer data bytes than the formula needs, data that is not hexadecimal.  *)
(***************************************************************************)
C20_Malformed(r, p) ==
    LET need == 4 + 2 * BytesNeeded(p)
        have == IF Len(r) < need THEN Len(r) ELSE need
    IN  \/ r = << >>
        \/ Len(r) >= 4 /\ Len(r) < need /\ \A i \in 1..Len(r) : IsHexChar(r[i])
        \/ Len(r) > 4 /\ (\A i \in 1..4 : IsHexChar(r[i]))
                      /\ \E i \in 5..have : ~IsHexChar(r[i])

C20_MalformedIsZero ==
    Decoded /\ pid \in PIDS /\ C20_Malformed(response, pid) => decoded = Zero

(***************************************************************************)
(* C30: in every result of ingestTick exactly one of flags.used_maf,       *)
(* flags.used_fuel_rate and flags.stale is true; flags.stale is true if    *)
(* and only if the call left both totals unchanged, and then co2_gps = 0   *)
(* and co2_g_per_km_instant = null.                                        *)
(***************************************************************************)
C30_TrueFlags(flags) ==
    {f \in {"used_maf", "used_fuel_rate", "stale"} : flags[f]}

C30_ExactlyOneFlag ==
    lastOp = "ingestTick" =>
        /\ Cardinality(C30_TrueFlags(ret.flags)) = 1
        /\ ret.flags.stale <=>
               (total_co2_g = pre_co2 /\ distance_km = pre_km)
        /\ ret.flags.stale =>
               /\ ret.co2_gps = Zero
               /\ ret.co2_g_per_km_instant = Null

C30_Witness ==
    /\ lastOp = "ingestTick"
    /\ ret.flags.stale
    /\ Gt(total_co2_g, Zero)
    /\ total_co2_g = pre_co2 /\ distance_km = pre_km

(***************************************************************************)
(* The start screen and the WiFi OBD service                               *)
(*                                                                         *)
(* One action per handler or callback; a handler runs to its next await,   *)
(* and React commits the state it has set and runs the emissions effect    *)
(* before the next handler runs.  The estimator is the singleton of the    *)
(* first part: total_co2_g and distance_km are its fields (the record of   *)
(* its last call, lastOp .. ret, is not kept here).                        *)
(***************************************************************************)
\* bounds on the events of one behaviour
MaxAppTicks == 2

MaxGps == 2

MaxTimers == 1

MaxReceived == 1

\* Date.now() differences between two runs of the effect (s)
AppDtValues == {Num(1)}

\* simulateOBDResponse: Math.floor(Math.random() * 80) + 20
SimulatedSpeeds == {Num(36)}

\* simulateOBDResponse: Math.random() * 40 + 2
SimulatedMafs == {Num(2), Rat(147, 10)}

\* the simulation timer: (Math.random() - 0.45) * 3, to one decimal
TelemetrySteps == {Zero}

\* the simulation timer: +(2 + Math.random() * 40).toFixed(2)
TelemetryMafs == {Rat(147, 10)}

\* haversine(last, coords) of two successive positions (km)
GpsSteps == {Rat(1, 2)}

\* +(x).toFixed(3) for x >= 0
toFixed3(x) ==
    IF IsNum(x) THEN Rat((2000 * x.n + x.d) \div (2 * x.d), 1000) ELSE x

\* Math.max(0, +(s + step).toFixed(1) || 30)
TelemetrySpeed(s, step) == MathMax(Zero, OrElse(Add(s, step), Num(30)))

\* the state a handler has set when it returns, before React commits it
Screen ==
    [isTracking |-> isTracking, obdConnected |-> obdConnected,
     obdConnecting |-> obdConnecting, speed |-> speed, maf |-> maf,
     emissions |-> emissions, distanceShown |-> distanceShown,
     total |-> total_co2_g, km |-> distance_km, ticks |-> tripTicks]

\* the dependency list [isTracking, obdConnected, maf, speed] differs from
\* the one of the last commit
DepsChanged(s) ==
    <<s.isTracking, s.obdConnected, s.maf, s.speed>>
        # <<isTracking, obdConnected, maf, speed>>

\* the effect runs and reaches EmissionsCalculator.ingestTick
EffectCalls(s) ==
    /\ DepsChanged(s)
    /\ s.isTracking
    /\ s.obdConnected /\ Gt(s.maf, Zero) /\ Gt(s.speed, Zero)

\* the argument of ingestTick
EffectInputs(s, dt_s) ==
    [NoInputs EXCEPT !.dt_s = dt_s,
                     !.speed_mps = Div(s.speed, Rat(18, 5)),
                     !.maf_gps = s.maf]

\* React commits the state s and runs the emissions effect
Render(s) ==
    /\ isTracking' = s.isTracking
    /\ obdConnected' = s.obdConnected
    /\ obdConnecting' = s.obdConnecting
    /\ speed' = s.speed
    /\ maf' = s.maf
    /\ IF EffectCalls(s)
       THEN /\ tickCount < MaxAppTicks
            /\ \E dt_s \in AppDtValues :
                   LET inputs == EffectInputs(s, dt_s)
                       t == Tick(inputs, s.total, s.km)
                   IN  /\ total_co2_g' = t.total
                       /\ distance_km' = t.distance
                       /\ emissions' = Div(t.out.total_co2_g, Num(1000))
                       /\ distanceShown' = t.out.distance_km
                       /\ tripTicks' = Append(s.ticks, inputs)
            /\ tickCount' = tickCount + 1
            /\ ingested' = 1
       ELSE /\ total_co2_g' = s.total
            /\ distance_km' = s.km
            /\ emissions' = s.emissions
            /\ distanceShown' = s.distanceShown
            /\ tripTicks' = s.ticks
            /\ UNCHANGED tickCount
            /\ ingested' = 0
    /\ UNCHANGED <<accepted, lastOp, lastIn, pre_co2, pre_km, ret>>
    /\ UNCHANGED <<dvars, bvars>>

\* the status callback of the screen: setObdConnected, setObdConnecting(false)
StatusCallback(s, connected) ==
    [s EXCEPT !.obdConnected = connected, !.obdConnecting = FALSE]

\* the data callback of the screen: setSpeed, setMaf
DataCallback(s, data) == [s EXCEPT !.speed = data.speed, !.maf = data.maf]

\* socket.destroy()
Destroyed(sock) == IF sock \in {"null", "closed"} THEN sock ELSE "destroyed"

\* the screen's variables no service event touches
ServiceOnly ==
    UNCHANGED <<obdEnabled, wifiConfigVisible, routeStarted,
                telemetryRef, pendingStart, watchRef, gpsCount>>

\* the 1000 ms callback of connect(): the simulated connection
fallbackConnect ==
    /\ fallbackTimers > 0
    /\ fallbackTimers' = fallbackTimers - 1
    /\ isConnected' = TRUE
    /\ readingInterval' = TRUE
    /\ attempt' = IF attempt = "pending" THEN "connected" ELSE attempt
    /\ sampled' = FALSE
    /\ Render(StatusCallback(Screen, TRUE))
    /\ UNCHANGED <<platform, wifiOBDServiceRef, socket, connectPc, received,
                   telemetryBy, sinceDisconnect>>
    /\ ServiceOnly

\* connect() on Android resumes after initializeAndroidSocket()
initializeAndroidSocket ==
    /\ connectPc = "init"
    /\ socket' = "idle"
    /\ connectPc' = "wait"
    /\ sampled' = FALSE
    /\ Render(Screen)
    /\ UNCHANGED <<platform, wifiOBDServiceRef, isConnected, readingInterval,
                   fallbackTimers, received, telemetryBy, attempt,
                   sinceDisconnect>>
    /\ ServiceOnly

\* initializeAndroidSocket() throws: the catch of connect() reports the
\* error and falls back to the simulated connection
initializeAndroidSocketFailed ==
    /\ connectPc = "init"
    /\ fallbackTimers < MaxTimers
    /\ socket' = "null"
    /\ connectPc' = "idle"
    /\ fallbackTimers' = fallbackTimers + 1
    /\ attempt' = IF attempt = "pending" THEN "error" ELSE attempt
    /\ sampled' = FALSE
    /\ Render(StatusCallback(Screen, FALSE))
    /\ UNCHANGED <<platform, wifiOBDServiceRef, isConnected, readingInterval,
                   received, telemetryBy, sinceDisconnect>>
    /\ ServiceOnly

\* connect() on Android resumes after the 100 ms timeout: socket.connect();
\* on a socket destroyed meanwhile the library may or may not connect
socketConnectCall ==
    /\ connectPc = "wait"
    /\ \E outcome \in IF socket = "idle" THEN {"connecting"}
                                         ELSE {"connecting", socket} :
           socket' = outcome
    /\ connectPc' = "idle"
    /\ sampled' = FALSE
    /\ Render(Screen)
    /\ UNCHANGED <<platform, wifiOBDServiceRef, isConnected, readingInterval,
                   fallbackTimers, received, telemetryBy, attempt,
                   sinceDisconnect>>
    /\ ServiceOnly

\* socket.on('connect')
onSocketConnect ==
    /\ socket = "connecting"
    /\ socket' = "open"
    /\ isConnected' = TRUE
    /\ readingInterval' = TRUE
    /\ attempt' = IF attempt = "pending" THEN "connected" ELSE attempt
    /\ sampled' = FALSE
    /\ Render(StatusCallback(Screen, TRUE))
    /\ UNCHANGED <<platform, wifiOBDServiceRef, connectPc, fallbackTimers,
                   received, telemetryBy, sinceDisconnect>>
    /\ ServiceOnly

\* socket.on('error'): the status with the error, then disconnect()
onSocketError ==
    /\ socket \in {"connecting", "open"}
    /\ readingInterval' = FALSE
    /\ socket' = Destroyed(socket)
    /\ isConnected' = FALSE
    /\ sinceDisconnect' = TRUE
    /\ attempt' = IF attempt = "pending" THEN "error" ELSE attempt
    /\ sampled' = FALSE
    /\ Render(StatusCallback(StatusCallback(Screen, FALSE), FALSE))
    /\ UNCHANGED <<platform, wifiOBDServiceRef, connectPc, fallbackTimers,
                   received, telemetryBy>>
    /\ ServiceOnly

\* socket.on('close'), after destroy() or when the adapter closes
onSocketClose ==
    /\ socket \in {"open", "destroyed"}
    /\ socket' = "closed"
    /\ isConnected' = FALSE
    /\ sampled' = FALSE
    /\ Render(StatusCallback(Screen, FALSE))
    /\ UNCHANGED <<platform, wifiOBDServiceRef, readingInterval, connectPc,
                   fallbackTimers, received, telemetryBy, attempt,
                   sinceDisconnect>>
    /\ ServiceOnly

\* socket.on('data') -> handleIncomingData: the response is logged, no field
\* of the service is written
handleIncomingData ==
    /\ socket = "open"
    /\ received < MaxReceived
    /\ received' = received + 1
    /\ sampled' = FALSE
    /\ Render(Screen)
    /\ UNCHANGED <<platform, wifiOBDServiceRef, isConnected, readingInterval,
                   socket, connectPc, fallbackTimers, telemetryBy, attempt,
                   sinceDisconnect>>
    /\ ServiceOnly

\* what queryPID returns for the speed and the MAF PIDs: simulateOBDResponse
simulateOBDResponse == [speed : SimulatedSpeeds, maf : SimulatedMafs]

\* completeData of readOBDData (speed and maf; rpm, engineLoad and throttle
\* take the same path)
CompleteData(results) ==
    [speed |-> OrElse(results.speed, Zero), maf |-> OrElse(results.maf, Zero)]

\* the readingInterval timer fires: readOBDData()
readOBDData ==
    /\ readingInterval
    /\ IF ~isConnected
       THEN /\ Render(Screen)
            /\ sampled' = FALSE
            /\ UNCHANGED telemetryBy
       ELSE \E results \in simulateOBDResponse :
                /\ Render(DataCallback(Screen, CompleteData(results)))
                /\ sampled' = TRUE
                /\ telemetryBy' = "obd"
    /\ UNCHANGED <<platform, wifiOBDServiceRef, isConnected, readingInterval,
                   socket, connectPc, fallbackTimers, received, attempt,
                   sinceDisconnect>>
    /\ ServiceOnly

\* the totals of the estimator after startTrip's EmissionsCalculator.reset()
startTrip_NoReset == [total |-> total_co2_g, distance |-> distance_km]

TripStartTotals == ResetTotals

\* WiFiConfig onConfigSaved: initializeWiFiOBDService, setConfig, connect()
\* up to its first await
handleWiFiConfigSaved ==
    /\ wifiConfigVisible
    /\ wifiConfigVisible' = FALSE
    /\ wifiOBDServiceRef' = TRUE
    /\ obdEnabled' = TRUE
    /\ attempt' = "pending"
    /\ sinceDisconnect' = FALSE
    /\ sampled' = FALSE
    /\ IF isConnected
       THEN /\ Render([Screen EXCEPT !.obdConnecting = TRUE])
            /\ UNCHANGED <<connectPc, fallbackTimers>>
       ELSE /\ Render(StatusCallback([Screen EXCEPT !.obdConnecting = TRUE],
                                     FALSE))
            /\ IF platform = "android"
               THEN /\ connectPc = "idle"
                    /\ connectPc' = "init"
                    /\ UNCHANGED fallbackTimers
               ELSE /\ fallbackTimers < MaxTimers
                    /\ fallbackTimers' = fallbackTimers + 1
                    /\ UNCHANGED connectPc
    /\ UNCHANGED <<platform, isConnected, readingInterval, socket, received>>
    /\ UNCHANGED <<routeStarted, telemetryRef, pendingStart,
                   watchRef, gpsCount, telemetryBy>>

\* WiFiConfig onClose
closeWiFiConfig ==
    /\ wifiConfigVisible
    /\ wifiConfigVisible' = FALSE
    /\ sampled' = FALSE
    /\ Render(Screen)
    /\ UNCHANGED wvars
    /\ UNCHANGED <<obdEnabled, routeStarted, telemetryRef,
                   pendingStart, watchRef, gpsCount,
                   telemetryBy, attempt, sinceDisconnect>>

\* the WiFi OBD button (disabled while obdConnecting): open the
\* configuration, or disconnect() and switch off
toggleOBDConnection ==
    /\ ~obdConnecting
    /\ ~wifiConfigVisible
    /\ sampled' = FALSE
    /\ IF ~obdEnabled
       THEN /\ wifiConfigVisible' = TRUE
            /\ Render(Screen)
            /\ UNCHANGED <<readingInterval, socket, isConnected, obdEnabled,
                           sinceDisconnect>>
       ELSE /\ readingInterval' = FALSE
            /\ socket' = Destroyed(socket)
            /\ isConnected' = FALSE
            /\ sinceDisconnect' = TRUE
            /\ obdEnabled' = FALSE
            /\ Render(StatusCallback(Screen, FALSE))
            /\ UNCHANGED wifiConfigVisible
    /\ UNCHANGED <<platform, wifiOBDServiceRef, connectPc, fallbackTimers,
                   received>>
    /\ UNCHANGED <<routeStarted, telemetryRef, pendingStart,
                   watchRef, gpsCount, telemetryBy, attempt>>

\* the Start Journey button (disabled while isTracking) with a car selected,
\* up to the await of watchPositionAsync
startTrip ==
    /\ ~isTracking
    /\ ~wifiConfigVisible
    /\ pendingStart = {}
    /\ sampled' = FALSE
    /\ Render([Screen EXCEPT !.isTracking = TRUE,
                       !.distanceShown = Zero,
                       !.emissions = Zero,
                       !.speed = Zero,
                       !.maf = Zero,
                       !.total = TripStartTotals.total,
                       !.km = TripStartTotals.distance,
                       !.ticks = << >>])
    /\ routeStarted' = FALSE
    /\ telemetryRef' = IF ~obdConnected THEN TRUE ELSE telemetryRef
    /\ pendingStart' = {obdConnected}
    /\ telemetryBy' = "reset"
    /\ UNCHANGED wvars
    /\ UNCHANGED <<obdEnabled, wifiConfigVisible, watchRef, gpsCount, attempt, sinceDisconnect>>

\* watchPositionAsync resolves: startTrip stores the subscription
watchStarted ==
    /\ pendingStart # {}
    /\ watchRef' = pendingStart
    /\ pendingStart' = {}
    /\ sampled' = FALSE
    /\ Render(Screen)
    /\ UNCHANGED wvars
    /\ UNCHANGED <<obdEnabled, wifiConfigVisible, routeStarted,
                   telemetryRef, gpsCount, telemetryBy, attempt,
                   sinceDisconnect>>

\* watchPositionAsync rejects: the catch of startTrip
watchFailed ==
    /\ pendingStart # {}
    /\ pendingStart' = {}
    /\ telemetryRef' = FALSE
    /\ sampled' = FALSE
    /\ Render([Screen EXCEPT !.isTracking = FALSE])
    /\ UNCHANGED wvars
    /\ UNCHANGED <<obdEnabled, wifiConfigVisible, routeStarted,
                   watchRef, gpsCount, telemetryBy, attempt,
                   sinceDisconnect>>

\* the callback given to watchPositionAsync, with the obdConnected that the
\* startTrip which subscribed it saw
onPosition(closureObdConnected) ==
    /\ closureObdConnected \in watchRef
    /\ gpsCount < MaxGps
    /\ gpsCount' = gpsCount + 1
    /\ routeStarted' = TRUE
    /\ sampled' = FALSE
    /\ IF routeStarted
       THEN \E d \in GpsSteps :
                Render([Screen EXCEPT
                    !.distanceShown = toFixed3(Add(distanceShown, d)),
                    !.emissions =
                        IF ~closureObdConnected
                        THEN toFixed3(Add(emissions, Mul(d, Rat(18, 100))))
                        ELSE emissions])
       ELSE Render(Screen)
    /\ UNCHANGED wvars
    /\ UNCHANGED <<obdEnabled, wifiConfigVisible, telemetryRef,
                   pendingStart, watchRef, telemetryBy,
                   attempt, sinceDisconnect>>

OnPosition == \E closureObdConnected \in BOOLEAN : onPosition(closureObdConnected)

\* the telemetry simulation interval of startTrip fires
telemetryTick ==
    /\ telemetryRef
    /\ telemetryBy' = "sim"
    /\ sampled' = FALSE
    /\ \E step \in TelemetrySteps, m \in TelemetryMafs :
           Render([Screen EXCEPT !.speed = TelemetrySpeed(speed, step),
                                 !.maf = m])
    /\ UNCHANGED wvars
    /\ UNCHANGED <<obdEnabled, wifiConfigVisible, routeStarted,
                   telemetryRef, pendingStart, watchRef, gpsCount,
                   attempt, sinceDisconnect>>

\* the Stop & Save button (disabled unless isTracking), pressed once the
\* position subscription of the trip exists
stopTrip ==
    /\ isTracking
    /\ ~wifiConfigVisible
    /\ pendingStart = {}
    /\ watchRef' = {}
    /\ telemetryRef' = FALSE
    /\ sampled' = FALSE
    /\ Render([Screen EXCEPT !.isTracking = FALSE])
    /\ UNCHANGED wvars
    /\ UNCHANGED <<obdEnabled, wifiConfigVisible, routeStarted,
                   pendingStart, gpsCount, telemetryBy,
                   attempt, sinceDisconnect>>

\* the screen mounted, on either platform
InitWifi ==
    /\ EstimatorInit
    /\ DecoderIdle
    /\ BleIdle
    /\ platform \in {"android", "ios"}
    /\ ScreenMounted

\* the WiFi OBD service and the WiFi OBD button of the screen
NextWifi ==
    \/ handleWiFiConfigSaved
    \/ closeWiFiConfig
    \/ toggleOBDConnection
    \/ fallbackConnect
    \/ initializeAndroidSocket
    \/ initializeAndroidSocketFailed
    \/ socketConnectCall
    \/ onSocketConnect
    \/ onSocketError
    \/ onSocketClose
    \/ handleIncomingData
    \/ readOBDData

SpecWifi == InitWifi /\ [][NextWifi]_vars

\* the trips of the screen, with the service on the platform where connect()
\* is the simulated connection
NextTrip ==
    \/ handleWiFiConfigSaved
    \/ closeWiFiConfig
    \/ toggleOBDConnection
    \/ fallbackConnect
    \/ readOBDData
    \/ startTrip
    \/ watchStarted
    \/ watchFailed
    \/ OnPosition
    \/ telemetryTick
    \/ stopTrip

InitTrip ==
    /\ EstimatorInit
    /\ DecoderIdle
    /\ BleIdle
    /\ ScreenIdle

SpecTrip == InitTrip /\ [][NextTrip]_vars

\* the text of the WiFi OBD button
Indicator ==
    IF obdConnecting THEN "Connecting..."
    ELSE IF obdConnected THEN "Connected" ELSE "Off"

(***************************************************************************)
(* C21: while the WiFi OBD service is connected, every value given to the  *)
(* data callback is derived from a response the adapter sent over the TCP  *)
(* socket; in particular no value is delivered before any response has     *)
(* been received.                                                          *)
(***************************************************************************)
C21_ValuesFromAdapter == telemetryBy = "obd" => received > 0

(***************************************************************************)
(* C22: from the moment the configuration is saved until the service       *)
(* reports connected or an error the button reads "Connecting..."; it      *)
(* reads "Connected" only while the service is connected.                  *)
(***************************************************************************)
C22_IndicatorFollowsAttempt ==
    /\ attempt = "pending" => Indicator = "Connecting..."
    /\ Indicator = "Connected" => isConnected

(***************************************************************************)
(* C28: once disconnect() has returned and until connect() is called       *)
(* again, the service is not connected and no reading timer is active.     *)
(***************************************************************************)
C28_StaysDisconnected ==
    sinceDisconnect => ~isConnected /\ ~readingInterval

(***************************************************************************)
(* C23: while a trip is tracked with OBD connected, every sample given to  *)
(* the data callback leads to exactly one ingestTick call, and ingestTick  *)
(* is called for nothing but a delivered sample.                           *)
(***************************************************************************)
C23_OneIngestPerSample ==
    /\ sampled /\ isTracking /\ obdConnected => ingested = 1
    /\ ~sampled => ingested = 0

(***************************************************************************)
(* C24: during a tracked trip of a screen whose OBD service was never      *)
(* connected (never created), the displayed emissions are 0.               *)
(***************************************************************************)
C24_NoObdNoEmissions ==
    isTracking /\ ~wifiOBDServiceRef /\ ~obdConnected => emissions = Zero

(***************************************************************************)
(* C25: while a trip is tracked with OBD connected, a position update      *)
(* does not change the displayed emissions (the d * 0.18 increment is not  *)
(* applied).                                                               *)
(***************************************************************************)
C25_SingleSource ==
    [][(gpsCount' # gpsCount /\ isTracking /\ obdConnected)
           => emissions' = emissions]_vars

(***************************************************************************)
(* C26: the simulation timer is not running while OBD is connected, and    *)
(* every ingestTick call gets the speed and MAF that the OBD data callback *)
(* wrote last.                                                             *)
(***************************************************************************)
C26_IngestOnlyObdValues ==
    /\ telemetryRef => ~obdConnected
    /\ ingested = 1 => telemetryBy = "obd"

(***************************************************************************)
(* C27: the totals of the shared estimator change only in a step that      *)
(* leaves a trip tracked (startTrip included), and while a trip is tracked *)
(* they are what the ticks ingested since its startTrip add up to from     *)
(* zero.                                                                   *)
(***************************************************************************)
RECURSIVE C27_Sum(_)
C27_Sum(ticks) ==
    IF ticks = << >>
    THEN [total |-> Zero, distance |-> Zero]
    ELSE LET before == C27_Sum(SubSeq(ticks, 1, Len(ticks) - 1))
             t == Tick(ticks[Len(ticks)], before.total, before.distance)
         IN  [total |-> t.total, distance |-> t.distance]

C27_TripsIsolated ==
    [][/\ (total_co2_g' # total_co2_g \/ distance_km' # distance_km)
              => isTracking'
       /\ isTracking' =>
              /\ total_co2_g' = C27_Sum(tripTicks').total
              /\ distance_km' = C27_Sum(tripTicks').distance]_vars

C27_Witness ==
    /\ isTracking
    /\ tickCount = 2
    /\ Len(tripTicks) = 1
    /\ Gt(total_co2_g, Zero)

(***************************************************************************)
(* The Bluetooth OBD service                                               *)
(*                                                                         *)
(* Time is counted in polling periods of one second: every interval timer  *)
(* fires once per period, and a timer created in a period fires first in   *)
(* the next one.                                                           *)
(***************************************************************************)
\* connectToDevice calls in one behaviour
MaxBleConnects == 2

\* what characteristic.read() returns for the speed query
BleSpeedResponses == {<< >>, <<"4", "1", "0", "D", "3", "2">>}

\* what characteristic.read() returns for the MAF query
BleMafResponses ==
    {<<"4", "1", "1", "0">>, <<"4", "1", "1", "0", "0", "1", "9", "0">>}

\* readPID for the speed and the MAF PIDs
readPID ==
    [speed : {parseOBDResponse(r, PID_SPEED) : r \in BleSpeedResponses},
     maf : {parseOBDResponse(r, PID_MAF) : r \in BleMafResponses}]

\* connectToDevice -> connectToDeviceInternal, up to await device.connect()
connectToDevice ==
    /\ blePc = "idle"
    /\ bleConnects < MaxBleConnects
    /\ bleConnects' = bleConnects + 1
    /\ blePc' = "connecting"
    /\ UNCHANGED <<connectedDevice, bleReaders, bleFired, bleCalls, bleData>>
    /\ UNCHANGED <<evars, dvars, avars>>

\* device.connect() and the discovery resolve: connectedDevice is set,
\* startReadingData runs up to its first await
deviceConnected ==
    /\ blePc = "connecting"
    /\ connectedDevice' = TRUE
    /\ blePc' = "starting"
    /\ UNCHANGED <<bleReaders, bleFired, bleCalls, bleConnects, bleData>>
    /\ UNCHANGED <<evars, dvars, avars>>

\* device.connect() rejects: the catch of connectToDeviceInternal
deviceConnectFailed ==
    /\ blePc = "connecting"
    /\ blePc' = "idle"
    /\ UNCHANGED <<connectedDevice, bleReaders, bleFired, bleCalls,
                   bleConnects, bleData>>
    /\ UNCHANGED <<evars, dvars, avars>>

\* readData(): a sample to the data callback unless connectedDevice is null
readData(calls, data) ==
    IF connectedDevice
    THEN [calls |-> calls + 1,
          data |-> {CompleteData(results) : results \in readPID}]
    ELSE [calls |-> calls, data |-> {data}]

\* startReadingData found the characteristic: readOBDDataPeriodically sets a
\* new interval and reads once
readOBDDataPeriodically ==
    /\ blePc = "starting"
    /\ blePc' = "idle"
    /\ bleReaders' = bleReaders + 1
    /\ bleFired' = bleFired + 1
    /\ LET read == readData(bleCalls, bleData)
       IN  /\ bleCalls' = read.calls
           /\ bleData' \in read.data
    /\ UNCHANGED <<connectedDevice, bleConnects>>
    /\ UNCHANGED <<evars, dvars, avars>>

\* startReadingData finds no characteristic: its catch
startReadingDataFailed ==
    /\ blePc = "starting"
    /\ blePc' = "idle"
    /\ UNCHANGED <<connectedDevice, bleReaders, bleFired, bleCalls,
                   bleConnects, bleData>>
    /\ UNCHANGED <<evars, dvars, avars>>

\* one of the setInterval(readData, 1000) timers fires
readDataTimer ==
    /\ bleFired < bleReaders
    /\ bleFired' = bleFired + 1
    /\ LET read == readData(bleCalls, bleData)
       IN  /\ bleCalls' = read.calls
           /\ bleData' \in read.data
    /\ UNCHANGED <<connectedDevice, blePc, bleReaders, bleConnects>>
    /\ UNCHANGED <<evars, dvars, avars>>

\* every timer has fired: the next polling period begins
nextSecond ==
    /\ bleFired = bleReaders
    /\ bleFired > 0 \/ bleCalls > 0
    /\ bleFired' = 0
    /\ bleCalls' = 0
    /\ UNCHANGED <<connectedDevice, blePc, bleReaders, bleConnects, bleData>>
    /\ UNCHANGED <<evars, dvars, avars>>

\* OBDService.disconnect() with a device connected
bleDisconnect ==
    /\ connectedDevice
    /\ connectedDevice' = FALSE
    /\ UNCHANGED <<blePc, bleReaders, bleFired, bleCalls, bleConnects, bleData>>
    /\ UNCHANGED <<evars, dvars, avars>>

NextBle ==
    \/ connectToDevice
    \/ deviceConnected
    \/ deviceConnectFailed
    \/ readOBDDataPeriodically
    \/ startReadingDataFailed
    \/ readDataTimer
    \/ nextSecond
    \/ bleDisconnect

InitBle == EstimatorInit /\ DecoderIdle /\ ScreenIdle /\ BleIdle

SpecBle == InitBle /\ [][NextBle]_vars

(***************************************************************************)
(* C29: an OBDService has at most one live 1-second reader at any time,    *)
(* and its data callback is called at most once per polling period.        *)
(***************************************************************************)
C29_OneReader == bleReaders <= 1 /\ bleCalls <= 1

=============================================================================
